---- MODULE Spec2Model ----
(***************************************************************************)
(* RAMP message / result-code layer (ramp_messages, ramp_results).         *)
(*                                                                         *)
(* Text that the code takes apart (version strings, result codes) is a     *)
(* sequence of one-character strings; text that the code only stores or    *)
(* concatenates (lc_id, topics, names) is a string. Python's None is the   *)
(* empty tuple and a present optional value v is the one-element tuple     *)
(* <<v>>. Objects of this layer share no state with one another (the only  *)
(* shared objects are the lists a caller passes in), so the model follows  *)
(* one message and one acknowledgment.                                     *)
(***************************************************************************)
EXTENDS Integers, Sequences, FiniteSets, TLC

VARIABLES
    imported,   \* ramp_results.codes has been imported: its constants exist
    written,    \* fields of catalog objects assigned since import:
                \* <<position, field>> -> value
    remote,     \* the version a peer sent, to be passed to is_compatible
    clock,      \* the latest reading of int(time.time() * 1000)
    lists,      \* heap of list objects: list id -> contents
    msg,        \* the RampMessage object under observation, None before it is made
    ack,        \* the Acknowledgment object under observation, None before it is made
    last        \* the latest call: operation, arguments, outcome

vars == <<imported, written, remote, clock, lists, msg, ack, last>>

None == <<>>
Some(v) == <<v>>

\* Outcome of a call: a returned value or a raised exception.
Returned(v) == [exc |-> "none", val |-> v]
Raised(e) == [exc |-> e, val |-> None]

(***************************************************************************)
(* Bounds                                                                  *)
(***************************************************************************)
MaxVerLen == 5     \* longest version text tried
MaxLists == 2      \* list objects on the heap
MaxLen == 1        \* longest list a caller builds or grows
MaxClock == 1      \* clock readings 0..MaxClock
MaxIdParts == 2    \* pieces an lc_id is put together from

(***************************************************************************)
(* ramp_results.categories                                                 *)
(***************************************************************************)
ResultCategory ==
    [SUCCESS |-> 1, CLIENT_ERROR |-> 2, SERVER_ERROR |-> 3,
     ACTION_REQUIRED |-> 4, CUSTOM |-> 5]

(***************************************************************************)
(* ramp_results.codes: VERSION and is_compatible                           *)
(***************************************************************************)
VERSION == <<"1", ".", "0", ".", "0">>

\* str.split(sep): the pieces between the separators, empty pieces included.
RECURSIVE SplitAcc(_, _, _, _)
SplitAcc(s, sep, cur, acc) ==
    IF s = <<>> THEN Append(acc, cur)
    ELSE IF Head(s) = sep THEN SplitAcc(Tail(s), sep, <<>>, Append(acc, cur))
    ELSE SplitAcc(Tail(s), sep, Append(cur, Head(s)), acc)

\* value.split("."), for a value of any type: NoneType and int have no
\* attribute split (AttributeError); bytes.split wants a bytes separator and
\* rejects the str "." (TypeError).
split(value) ==
    CASE value.type = "str" -> Returned(SplitAcc(value.text, ".", <<>>, <<>>))
      [] value.type = "bytes" -> Raised("TypeError")
      [] OTHER -> Raised("AttributeError")

\* A mutant: the patch component is compared too.
is_compatible_patch(remote_version) ==
    LET parts == split(remote_version)
        local_parts == SplitAcc(VERSION, ".", <<>>, <<>>) IN
    IF parts.exc \in {"AttributeError", "ValueError"} THEN Returned(FALSE)
    ELSE IF parts.exc # "none" THEN Raised(parts.exc)
    ELSE Returned(Len(parts.val) = 3 /\ parts.val = local_parts)

is_compatible(remote_version) ==
    LET local_parts == SplitAcc(VERSION, ".", <<>>, <<>>)
        parts == split(remote_version) IN
    IF parts.exc \in {"AttributeError", "ValueError"} THEN Returned(FALSE)
    ELSE IF parts.exc # "none" THEN Raised(parts.exc)
    ELSE LET remote_parts == parts.val IN
         IF Len(local_parts) # 3 \/ Len(remote_parts) # 3 THEN Returned(FALSE)
         ELSE IF local_parts[1] # remote_parts[1] THEN Returned(FALSE)
         ELSE IF local_parts[2] # remote_parts[2] THEN Returned(FALSE)
         ELSE Returned(TRUE)

\* The frozen dataclass ResultCode(code, category, description).
ResultCode(code, category, description) ==
    [code |-> code, category |-> category, description |-> description]

GENERIC_SUCCESS ==
    ResultCode(<<"1",".","0","0",".","0","0">>, "SUCCESS", "Operation completed successfully.")

\* A mutant: the constant is pasted from the one above and its code not edited.
ACKNOWLEDGED_pasted ==
    ResultCode(<<"1",".","0","0",".","0","0">>, "SUCCESS", "Message acknowledged; no further action needed.")

ACKNOWLEDGED ==
    ResultCode(<<"1",".","0","0",".","0","1">>, "SUCCESS", "Message acknowledged; no further action needed.")

ACCEPTED ==
    ResultCode(<<"1",".","0","0",".","0","2">>, "SUCCESS", "Instruction accepted for processing.")

CONNECTED ==
    ResultCode(<<"1",".","0","1",".","0","0">>, "SUCCESS", "Connection established successfully.")

RECONNECTED ==
    ResultCode(<<"1",".","0","1",".","0","1">>, "SUCCESS", "Reconnection succeeded after temporary loss.")

DATA_STORED ==
    ResultCode(<<"1",".","0","3",".","0","0">>, "SUCCESS", "Sensor data written to database.")

DATA_UPDATED ==
    ResultCode(<<"1",".","0","3",".","0","1">>, "SUCCESS", "Existing record modified with new data.")

BATCH_STORED ==
    ResultCode(<<"1",".","0","3",".","0","2">>, "SUCCESS", "Multiple data entries processed successfully.")

CONFIG_APPLIED ==
    ResultCode(<<"1",".","0","4",".","0","0">>, "SUCCESS", "New configuration applied without errors.")

CONFIG_VALIDATED ==
    ResultCode(<<"1",".","0","4",".","0","1">>, "SUCCESS", "Configuration validated; awaiting confirmation.")

UPDATE_COMPLETE ==
    ResultCode(<<"1",".","0","5",".","0","0">>, "SUCCESS", "Update operation finished successfully.")

PATCH_APPLIED ==
    ResultCode(<<"1",".","0","5",".","0","1">>, "SUCCESS", "System patch executed and logged.")

HEARTBEAT_OK ==
    ResultCode(<<"1",".","0","6",".","0","0">>, "SUCCESS", "Heartbeat received and accepted.")

HEARTBEAT_SYNCED ==
    ResultCode(<<"1",".","0","6",".","0","1">>, "SUCCESS", "Heartbeat interval synchronized successfully.")

SELFCHECK_PASSED ==
    ResultCode(<<"1",".","0","7",".","0","0">>, "SUCCESS", "System health check completed successfully.")

MONITORING_OK ==
    ResultCode(<<"1",".","0","7",".","0","1">>, "SUCCESS", "Monitoring components verified operational.")

RECOVERY_OK ==
    ResultCode(<<"1",".","0","7",".","0","2">>, "SUCCESS", "System resumed normal state after recovery.")

FIRMWARE_VALIDATED ==
    ResultCode(<<"1",".","0","8",".","0","0">>, "SUCCESS", "Firmware version validated against baseline.")

FIRMWARE_APPLIED ==
    ResultCode(<<"1",".","0","8",".","0","1">>, "SUCCESS", "Firmware image applied and checksum verified.")

FIRMWARE_COMMITTED ==
    ResultCode(<<"1",".","0","8",".","0","2">>, "SUCCESS", "Firmware version confirmed as active.")

RULES_LOADED ==
    ResultCode(<<"1",".","0","9",".","0","0">>, "SUCCESS", "Decision ruleset loaded successfully.")

RULES_VALIDATED ==
    ResultCode(<<"1",".","0","9",".","0","1">>, "SUCCESS", "Ruleset passed syntax and scope validation.")

RULES_ENFORCED ==
    ResultCode(<<"1",".","0","9",".","0","2">>, "SUCCESS", "Runtime logic enforced current rule set.")

MALFORMED_MESSAGE ==
    ResultCode(<<"2",".","0","1",".","0","0">>, "CLIENT_ERROR", "Message structure invalid or incomplete.")

UNKNOWN_TYPE ==
    ResultCode(<<"2",".","0","1",".","0","1">>, "CLIENT_ERROR", "Message type not recognized.")

MISSING_FIELDS ==
    ResultCode(<<"2",".","0","1",".","0","2">>, "CLIENT_ERROR", "Required field(s) missing from payload.")

INVALID_PAYLOAD ==
    ResultCode(<<"2",".","0","1",".","0","3">>, "CLIENT_ERROR", "One or more payload fields are incorrect.")

FIELD_TYPE_ERROR ==
    ResultCode(<<"2",".","0","1",".","0","4">>, "CLIENT_ERROR", "Type mismatch in a required field.")

UNEXPECTED_STRUCTURE ==
    ResultCode(<<"2",".","0","1",".","0","5">>, "CLIENT_ERROR", "Nested field layout does not match schema.")

UNAUTHORIZED ==
    ResultCode(<<"2",".","0","2",".","0","0">>, "CLIENT_ERROR", "Token or identity check failed.")

TOKEN_EXPIRED ==
    ResultCode(<<"2",".","0","2",".","0","1">>, "CLIENT_ERROR", "Provided token is no longer valid.")

ROLE_FORBIDDEN ==
    ResultCode(<<"2",".","0","2",".","0","2">>, "CLIENT_ERROR", "Operation not permitted for this LC.")

CONNECTION_REFUSED ==
    ResultCode(<<"2",".","0","3",".","0","0">>, "CLIENT_ERROR", "MC rejected handshake or payload.")

DUPLICATE_CONNECT ==
    ResultCode(<<"2",".","0","3",".","0","1">>, "CLIENT_ERROR", "LC attempted to connect multiple times.")

UPDATE_REJECTED ==
    ResultCode(<<"2",".","0","4",".","0","0">>, "CLIENT_ERROR", "Configuration update disallowed.")

FORMAT_DEPRECATED ==
    ResultCode(<<"2",".","0","4",".","0","1">>, "CLIENT_ERROR", "Message format is deprecated or unsupported.")

BAD_HEARTBEAT ==
    ResultCode(<<"2",".","0","5",".","0","0">>, "CLIENT_ERROR", "Heartbeat frequency or content invalid.")

OUT_OF_SYNC ==
    ResultCode(<<"2",".","0","5",".","0","1">>, "CLIENT_ERROR", "Timestamps or sequence numbers inconsistent.")

CONFIG_CONFLICT ==
    ResultCode(<<"2",".","0","6",".","0","0">>, "CLIENT_ERROR", "Two conflicting parameters detected.")

REJECTED_POLICY ==
    ResultCode(<<"2",".","0","6",".","0","1">>, "CLIENT_ERROR", "Submitted change violates controller policy.")

INVALID_TIMESTAMP ==
    ResultCode(<<"2",".","0","6",".","0","2">>, "CLIENT_ERROR", "Message timestamp is out of logical bounds.")

SEQUENCE_MISMATCH ==
    ResultCode(<<"2",".","0","6",".","0","3">>, "CLIENT_ERROR", "Sequence counter does not align with prior state.")

PATCH_MALFORMED ==
    ResultCode(<<"2",".","0","7",".","0","0">>, "CLIENT_ERROR", "Update patch could not be parsed.")

PATCH_CONFLICT ==
    ResultCode(<<"2",".","0","7",".","0","1">>, "CLIENT_ERROR", "Patch conflicts with existing instructions.")

UPDATE_UNSAFE ==
    ResultCode(<<"2",".","0","7",".","0","2">>, "CLIENT_ERROR", "Patch would compromise runtime safety.")

MISSING_DEPENDENCY ==
    ResultCode(<<"2",".","0","8",".","0","0">>, "CLIENT_ERROR", "Operation references undeclared dependency.")

ILLEGAL_OVERRIDE ==
    ResultCode(<<"2",".","0","8",".","0","1">>, "CLIENT_ERROR", "Attempt to override protected configuration.")

\* A mutant: the first server error keeps the category of the section above.
INTERNAL_EXCEPTION_client ==
    ResultCode(<<"3",".","1","0",".","0","0">>, "CLIENT_ERROR", "Uncaught exception in message processing.")

INTERNAL_EXCEPTION ==
    ResultCode(<<"3",".","1","0",".","0","0">>, "SERVER_ERROR", "Uncaught exception in message processing.")

DB_WRITE_ERROR ==
    ResultCode(<<"3",".","1","0",".","0","1">>, "SERVER_ERROR", "Database could not commit the data.")

TRANSACTION_TIMEOUT ==
    ResultCode(<<"3",".","1","0",".","0","2">>, "SERVER_ERROR", "Data commit operation exceeded timeout.")

LOCK_CONFLICT ==
    ResultCode(<<"3",".","1","0",".","0","3">>, "SERVER_ERROR", "Concurrency control failure.")

QUEUE_FULL ==
    ResultCode(<<"3",".","1","1",".","0","0">>, "SERVER_ERROR", "Internal message queue is full.")

DISPATCHER_FAILURE ==
    ResultCode(<<"3",".","1","1",".","0","1">>, "SERVER_ERROR", "Routing logic failed to assign handler.")

RETRY_EXHAUSTED ==
    ResultCode(<<"3",".","1","1",".","0","2">>, "SERVER_ERROR", "System retried operation and failed.")

DOWNSTREAM_DOWN ==
    ResultCode(<<"3",".","1","2",".","0","0">>, "SERVER_ERROR", "Downstream service unavailable.")

STORAGE_OFFLINE ==
    ResultCode(<<"3",".","1","2",".","0","1">>, "SERVER_ERROR", "Data layer cannot be accessed.")

ANALYTICS_FAILED ==
    ResultCode(<<"3",".","1","2",".","0","2">>, "SERVER_ERROR", "MC analytics module failed to respond.")

EMERGENCY_STOP ==
    ResultCode(<<"3",".","1","3",".","0","0">>, "SERVER_ERROR", "Critical fault triggered shutdown.")

MODULE_CRASH ==
    ResultCode(<<"3",".","1","4",".","0","0">>, "SERVER_ERROR", "Internal service module encountered a fatal error.")

RESOURCE_STARVATION ==
    ResultCode(<<"3",".","1","4",".","0","1">>, "SERVER_ERROR", "System unable to allocate memory or threads.")

INCONSISTENT_STATE ==
    ResultCode(<<"3",".","1","4",".","0","2">>, "SERVER_ERROR", "Controller entered invalid runtime state.")

WATCHDOG_TRIGGERED ==
    ResultCode(<<"3",".","1","4",".","0","3">>, "SERVER_ERROR", "System watchdog forced fault recovery.")

OVERFLOW_FAULT ==
    ResultCode(<<"3",".","1","5",".","0","0">>, "SERVER_ERROR", "Numerical overflow or out-of-range computation.")

DIVISION_ERROR ==
    ResultCode(<<"3",".","1","5",".","0","1">>, "SERVER_ERROR", "Division by zero or undefined result.")

RANGE_VIOLATION ==
    ResultCode(<<"3",".","1","5",".","0","2">>, "SERVER_ERROR", "Access attempted beyond defined limits.")

SANDBOX_BREACH ==
    ResultCode(<<"3",".","1","6",".","0","0">>, "SERVER_ERROR", "Isolated process violated runtime boundaries.")

MESSAGE_LEAK ==
    ResultCode(<<"3",".","1","6",".","0","1">>, "SERVER_ERROR", "Data from restricted scope exposed.")

RECONFIGURATION_REQUIRED ==
    ResultCode(<<"4",".","2","0",".","0","0">>, "ACTION_REQUIRED", "Operation cannot proceed without setting changes.")

RETRY_SUGGESTED ==
    ResultCode(<<"4",".","2","0",".","0","1">>, "ACTION_REQUIRED", "Temporary issue; retry may succeed.")

INVALID_SCHEMA ==
    ResultCode(<<"4",".","2","0",".","0","2">>, "ACTION_REQUIRED", "Controller must update message schema.")

SELF_TEST_NEEDED ==
    ResultCode(<<"4",".","2","1",".","0","0">>, "ACTION_REQUIRED", "Self-check must be initiated by LC.")

CALIBRATION_NEEDED ==
    ResultCode(<<"4",".","2","1",".","0","1">>, "ACTION_REQUIRED", "Sensor needs calibration input.")

RESET_REQUIRED ==
    ResultCode(<<"4",".","2","1",".","0","2">>, "ACTION_REQUIRED", "System requires reboot or state clear.")

MANUAL_INTERVENTION ==
    ResultCode(<<"4",".","2","2",".","0","0">>, "ACTION_REQUIRED", "Action cannot proceed without human review.")

UNSAFE_CONDITION ==
    ResultCode(<<"4",".","2","2",".","0","1">>, "ACTION_REQUIRED", "Safety check failed; operation paused.")

DEPLOYMENT_CHANGE ==
    ResultCode(<<"4",".","2","2",".","0","2">>, "ACTION_REQUIRED", "Deployment configuration must be updated.")

RESERVED_MODE ==
    ResultCode(<<"4",".","2","2",".","0","3">>, "ACTION_REQUIRED", "LC in restricted/maintenance mode.")

MANUAL_REBOOT ==
    ResultCode(<<"4",".","2","3",".","0","0">>, "ACTION_REQUIRED", "Operator must restart the system physically.")

REPLACE_COMPONENT ==
    ResultCode(<<"4",".","2","3",".","0","1">>, "ACTION_REQUIRED", "Physical sensor or module replacement needed.")

CONFIRM_OVERRIDE ==
    ResultCode(<<"4",".","2","3",".","0","2">>, "ACTION_REQUIRED", "Policy override must be manually accepted.")

AWAIT_SCHEDULING ==
    ResultCode(<<"4",".","2","4",".","0","0">>, "ACTION_REQUIRED", "LC placed in pending state by MC.")

CERTIFICATE_UPDATE ==
    ResultCode(<<"4",".","2","4",".","0","1">>, "ACTION_REQUIRED", "Security certificate is outdated.")

ROLE_CHANGE_PENDING ==
    ResultCode(<<"4",".","2","4",".","0","2">>, "ACTION_REQUIRED", "LC role update awaiting activation.")

CONFLICT_ESCALATION ==
    ResultCode(<<"4",".","2","5",".","0","0">>, "ACTION_REQUIRED", "Operational conflict requires MC arbitration.")

LOG_REVIEW_REQUIRED ==
    ResultCode(<<"4",".","2","5",".","0","1">>, "ACTION_REQUIRED", "Event logs must be reviewed before continuation.")

ENTER_DEGRADED_MODE ==
    ResultCode(<<"4",".","2","5",".","0","2">>, "ACTION_REQUIRED", "LC must reduce capability until resolved.")

GRACE_PERIOD_EXPIRED ==
    ResultCode(<<"4",".","2","5",".","0","3">>, "ACTION_REQUIRED", "Required update window has elapsed.")

CUSTOM_HANDLER ==
    ResultCode(<<"5",".","9","9",".","0","0">>, "CUSTOM", "Message processed by custom integration logic.")

\* The catalog: the module-level constants, in the order of the file. They are
\* made at import and are frozen, so the catalog is a definition, not a variable.
Catalog ==
    << GENERIC_SUCCESS, ACKNOWLEDGED, ACCEPTED, CONNECTED,
       RECONNECTED, DATA_STORED, DATA_UPDATED, BATCH_STORED,
       CONFIG_APPLIED, CONFIG_VALIDATED, UPDATE_COMPLETE, PATCH_APPLIED,
       HEARTBEAT_OK, HEARTBEAT_SYNCED, SELFCHECK_PASSED, MONITORING_OK,
       RECOVERY_OK, FIRMWARE_VALIDATED, FIRMWARE_APPLIED, FIRMWARE_COMMITTED,
       RULES_LOADED, RULES_VALIDATED, RULES_ENFORCED, MALFORMED_MESSAGE,
       UNKNOWN_TYPE, MISSING_FIELDS, INVALID_PAYLOAD, FIELD_TYPE_ERROR,
       UNEXPECTED_STRUCTURE, UNAUTHORIZED, TOKEN_EXPIRED, ROLE_FORBIDDEN,
       CONNECTION_REFUSED, DUPLICATE_CONNECT, UPDATE_REJECTED, FORMAT_DEPRECATED,
       BAD_HEARTBEAT, OUT_OF_SYNC, CONFIG_CONFLICT, REJECTED_POLICY,
       INVALID_TIMESTAMP, SEQUENCE_MISMATCH, PATCH_MALFORMED, PATCH_CONFLICT,
       UPDATE_UNSAFE, MISSING_DEPENDENCY, ILLEGAL_OVERRIDE, INTERNAL_EXCEPTION,
       DB_WRITE_ERROR, TRANSACTION_TIMEOUT, LOCK_CONFLICT, QUEUE_FULL,
       DISPATCHER_FAILURE, RETRY_EXHAUSTED, DOWNSTREAM_DOWN, STORAGE_OFFLINE,
       ANALYTICS_FAILED, EMERGENCY_STOP, MODULE_CRASH, RESOURCE_STARVATION,
       INCONSISTENT_STATE, WATCHDOG_TRIGGERED, OVERFLOW_FAULT, DIVISION_ERROR,
       RANGE_VIOLATION, SANDBOX_BREACH, MESSAGE_LEAK, RECONFIGURATION_REQUIRED,
       RETRY_SUGGESTED, INVALID_SCHEMA, SELF_TEST_NEEDED, CALIBRATION_NEEDED,
       RESET_REQUIRED, MANUAL_INTERVENTION, UNSAFE_CONDITION, DEPLOYMENT_CHANGE,
       RESERVED_MODE, MANUAL_REBOOT, REPLACE_COMPONENT, CONFIRM_OVERRIDE,
       AWAIT_SCHEDULING, CERTIFICATE_UPDATE, ROLE_CHANGE_PENDING, CONFLICT_ESCALATION,
       LOG_REVIEW_REQUIRED, ENTER_DEGRADED_MODE, GRACE_PERIOD_EXPIRED, CUSTOM_HANDLER >>

ResultCodeFields == {"code", "category", "description"}

\* The catalog object at position i as it is now: the fields it was made
\* with at import, overlaid with the assignments made to it since.
ResultCodeNow(i) ==
    [f \in ResultCodeFields |->
        IF <<i, f>> \in DOMAIN written THEN written[<<i, f>>] ELSE Catalog[i][f]]

\* The names bound at the top level of codes.py, apart from the catalog
\* constants: two imports, VERSION, the function and the class.
codes_other ==
    ("dataclass" :> [type |-> "function", name |-> "dataclass"])
    @@ ("ResultCategory" :> [type |-> "class", name |-> "ResultCategory"])
    @@ ("VERSION" :> [type |-> "str", text |-> VERSION])
    @@ ("is_compatible" :> [type |-> "function", name |-> "is_compatible"])
    @@ ("ResultCode" :> [type |-> "class", name |-> "ResultCode"])

\* The namespace of the module ramp_results.codes after import: each
\* top-level name and the object it is bound to. The module defines nothing
\* else: no collection of the entries and no function from a code to its entry.
codes_namespace ==
    codes_other
    @@ ("GENERIC_SUCCESS" :> GENERIC_SUCCESS)    @@ ("ACKNOWLEDGED" :> ACKNOWLEDGED)
    @@ ("ACCEPTED" :> ACCEPTED)    @@ ("CONNECTED" :> CONNECTED)
    @@ ("RECONNECTED" :> RECONNECTED)    @@ ("DATA_STORED" :> DATA_STORED)
    @@ ("DATA_UPDATED" :> DATA_UPDATED)    @@ ("BATCH_STORED" :> BATCH_STORED)
    @@ ("CONFIG_APPLIED" :> CONFIG_APPLIED)    @@ ("CONFIG_VALIDATED" :> CONFIG_VALIDATED)
    @@ ("UPDATE_COMPLETE" :> UPDATE_COMPLETE)    @@ ("PATCH_APPLIED" :> PATCH_APPLIED)
    @@ ("HEARTBEAT_OK" :> HEARTBEAT_OK)    @@ ("HEARTBEAT_SYNCED" :> HEARTBEAT_SYNCED)
    @@ ("SELFCHECK_PASSED" :> SELFCHECK_PASSED)    @@ ("MONITORING_OK" :> MONITORING_OK)
    @@ ("RECOVERY_OK" :> RECOVERY_OK)    @@ ("FIRMWARE_VALIDATED" :> FIRMWARE_VALIDATED)
    @@ ("FIRMWARE_APPLIED" :> FIRMWARE_APPLIED)    @@ ("FIRMWARE_COMMITTED" :> FIRMWARE_COMMITTED)
    @@ ("RULES_LOADED" :> RULES_LOADED)    @@ ("RULES_VALIDATED" :> RULES_VALIDATED)
    @@ ("RULES_ENFORCED" :> RULES_ENFORCED)    @@ ("MALFORMED_MESSAGE" :> MALFORMED_MESSAGE)
    @@ ("UNKNOWN_TYPE" :> UNKNOWN_TYPE)    @@ ("MISSING_FIELDS" :> MISSING_FIELDS)
    @@ ("INVALID_PAYLOAD" :> INVALID_PAYLOAD)    @@ ("FIELD_TYPE_ERROR" :> FIELD_TYPE_ERROR)
    @@ ("UNEXPECTED_STRUCTURE" :> UNEXPECTED_STRUCTURE)    @@ ("UNAUTHORIZED" :> UNAUTHORIZED)
    @@ ("TOKEN_EXPIRED" :> TOKEN_EXPIRED)    @@ ("ROLE_FORBIDDEN" :> ROLE_FORBIDDEN)
    @@ ("CONNECTION_REFUSED" :> CONNECTION_REFUSED)    @@ ("DUPLICATE_CONNECT" :> DUPLICATE_CONNECT)
    @@ ("UPDATE_REJECTED" :> UPDATE_REJECTED)    @@ ("FORMAT_DEPRECATED" :> FORMAT_DEPRECATED)
    @@ ("BAD_HEARTBEAT" :> BAD_HEARTBEAT)    @@ ("OUT_OF_SYNC" :> OUT_OF_SYNC)
    @@ ("CONFIG_CONFLICT" :> CONFIG_CONFLICT)    @@ ("REJECTED_POLICY" :> REJECTED_POLICY)
    @@ ("INVALID_TIMESTAMP" :> INVALID_TIMESTAMP)    @@ ("SEQUENCE_MISMATCH" :> SEQUENCE_MISMATCH)
    @@ ("PATCH_MALFORMED" :> PATCH_MALFORMED)    @@ ("PATCH_CONFLICT" :> PATCH_CONFLICT)
    @@ ("UPDATE_UNSAFE" :> UPDATE_UNSAFE)    @@ ("MISSING_DEPENDENCY" :> MISSING_DEPENDENCY)
    @@ ("ILLEGAL_OVERRIDE" :> ILLEGAL_OVERRIDE)    @@ ("INTERNAL_EXCEPTION" :> INTERNAL_EXCEPTION)
    @@ ("DB_WRITE_ERROR" :> DB_WRITE_ERROR)    @@ ("TRANSACTION_TIMEOUT" :> TRANSACTION_TIMEOUT)
    @@ ("LOCK_CONFLICT" :> LOCK_CONFLICT)    @@ ("QUEUE_FULL" :> QUEUE_FULL)
    @@ ("DISPATCHER_FAILURE" :> DISPATCHER_FAILURE)    @@ ("RETRY_EXHAUSTED" :> RETRY_EXHAUSTED)
    @@ ("DOWNSTREAM_DOWN" :> DOWNSTREAM_DOWN)    @@ ("STORAGE_OFFLINE" :> STORAGE_OFFLINE)
    @@ ("ANALYTICS_FAILED" :> ANALYTICS_FAILED)    @@ ("EMERGENCY_STOP" :> EMERGENCY_STOP)
    @@ ("MODULE_CRASH" :> MODULE_CRASH)    @@ ("RESOURCE_STARVATION" :> RESOURCE_STARVATION)
    @@ ("INCONSISTENT_STATE" :> INCONSISTENT_STATE)    @@ ("WATCHDOG_TRIGGERED" :> WATCHDOG_TRIGGERED)
    @@ ("OVERFLOW_FAULT" :> OVERFLOW_FAULT)    @@ ("DIVISION_ERROR" :> DIVISION_ERROR)
    @@ ("RANGE_VIOLATION" :> RANGE_VIOLATION)    @@ ("SANDBOX_BREACH" :> SANDBOX_BREACH)
    @@ ("MESSAGE_LEAK" :> MESSAGE_LEAK)    @@ ("RECONFIGURATION_REQUIRED" :> RECONFIGURATION_REQUIRED)
    @@ ("RETRY_SUGGESTED" :> RETRY_SUGGESTED)    @@ ("INVALID_SCHEMA" :> INVALID_SCHEMA)
    @@ ("SELF_TEST_NEEDED" :> SELF_TEST_NEEDED)    @@ ("CALIBRATION_NEEDED" :> CALIBRATION_NEEDED)
    @@ ("RESET_REQUIRED" :> RESET_REQUIRED)    @@ ("MANUAL_INTERVENTION" :> MANUAL_INTERVENTION)
    @@ ("UNSAFE_CONDITION" :> UNSAFE_CONDITION)    @@ ("DEPLOYMENT_CHANGE" :> DEPLOYMENT_CHANGE)
    @@ ("RESERVED_MODE" :> RESERVED_MODE)    @@ ("MANUAL_REBOOT" :> MANUAL_REBOOT)
    @@ ("REPLACE_COMPONENT" :> REPLACE_COMPONENT)    @@ ("CONFIRM_OVERRIDE" :> CONFIRM_OVERRIDE)
    @@ ("AWAIT_SCHEDULING" :> AWAIT_SCHEDULING)    @@ ("CERTIFICATE_UPDATE" :> CERTIFICATE_UPDATE)
    @@ ("ROLE_CHANGE_PENDING" :> ROLE_CHANGE_PENDING)    @@ ("CONFLICT_ESCALATION" :> CONFLICT_ESCALATION)
    @@ ("LOG_REVIEW_REQUIRED" :> LOG_REVIEW_REQUIRED)    @@ ("ENTER_DEGRADED_MODE" :> ENTER_DEGRADED_MODE)
    @@ ("GRACE_PERIOD_EXPIRED" :> GRACE_PERIOD_EXPIRED)    @@ ("CUSTOM_HANDLER" :> CUSTOM_HANDLER)

\* getattr(ramp_results.codes, name): the object the name is bound to, or
\* AttributeError when the module has no such name.
codes_getattr(name) ==
    IF name \in DOMAIN codes_namespace
    THEN Returned(codes_namespace[name])
    ELSE Raised("AttributeError")

\* "".join(chars): a code or version as one string
RECURSIVE Join(_)
Join(chars) == IF chars = <<>> THEN "" ELSE Head(chars) \o Join(Tail(chars))

(***************************************************************************)
(* Values callers pass                                                     *)
(***************************************************************************)
VerChars == {"0", "1", "2", ".", "x"}
VerTexts == UNION {[1..n -> VerChars] : n \in 0..MaxVerLen}

Str(t) == [type |-> "str", text |-> t]

\* Arguments of is_compatible: text, and values that are not text.
RemoteVersions ==
    {Str(t) : t \in VerTexts}
    \cup {[type |-> "bytes", text |-> VERSION],
          [type |-> "NoneType", text |-> <<>>],
          [type |-> "int", text |-> <<>>]}

LcIds == {"LC7", ""}
\* lc_id is any string: plain identifiers, and strings made of the pieces
\* the topic templates themselves are made of.
IdParts == {"", "LC7", "/", "/lc/", "/heartbeat/", "/update/", "/disconnect/"}
RECURSIVE IdsOf(_)
IdsOf(n) == IF n = 0 THEN {""} ELSE {a \o b : a \in IdParts, b \in IdsOf(n - 1)}
AnyLcIds == IdsOf(MaxIdParts)

Names == {"loco"}
Ips == {"10.0.0.1"}
TrainIds == {0, 7}
Heartrates == {0, 30}
Items == {"d1"}
Times == 0..MaxClock
MsgTypes == {"FHM", "UM"}
OtherVersions == {<<"0", ".", "9", ".", "0">>}
ListIds == 1..Len(lists)

\* The result codes acknowledgments are built from, as positions in the catalog.
AckResults ==
    {i \in DOMAIN Catalog : Catalog[i] \in {GENERIC_SUCCESS, MALFORMED_MESSAGE, CUSTOM_HANDLER}}

\* A keyword the caller leaves out, or passes with a value of S.
Opt(k, S) == {<<>>} \cup {k :> v : v \in S}

FHMArgs ==
    {a1 @@ a2 @@ a3 @@ a4 @@ a5 :
        a1 \in Opt("lc_id", LcIds), a2 \in Opt("name", Names), a3 \in Opt("ip", Ips),
        a4 \in Opt("train_id", TrainIds), a5 \in Opt("sensors", ListIds)}
HMArgs == {a1 @@ a2 : a1 \in Opt("lc_id", LcIds), a2 \in Opt("heartrate", Heartrates)}
DCMArgs == Opt("lc_id", LcIds)
UMArgs == {a1 @@ a2 : a1 \in Opt("lc_id", LcIds), a2 \in Opt("updates", ListIds)}
AckArgs ==
    {a1 @@ a2 @@ a3 @@ a4 :
        a1 \in Opt("result", AckResults), a2 \in Opt("msg_type", MsgTypes),
        a3 \in Opt("original_ts", Times), a4 \in Opt("version", OtherVersions)}

(***************************************************************************)
(* ramp_messages                                                           *)
(***************************************************************************)
\* Python binds the call's arguments before __init__ runs: a required
\* parameter without an argument is a TypeError and no object is made.
Unbound(args, required) == required \ DOMAIN args

Call(op, args, out) == [op |-> op, args |-> args, out |-> out]

\* RampMessage.__init__: time.time() is read (the new value of clock)
RampMessage_init(cls, lc_id) ==
    [cls |-> cls, lc_id |-> lc_id, timestamp |-> clock']

\* list truthiness: "sensors or []", "if self.sensors"
Truthy(ref) == ref # None /\ lists[ref[1]] # <<>>

FHM_msg_type(m) == "FHM"
HM_msg_type(m) == "HM"
DCM_msg_type(m) == "DCM"
UM_msg_type(m) == "UM"

\* m.msg_type: the property of m's class
msg_type(m) ==
    CASE m.cls = "FirstHandshakeMessage" -> FHM_msg_type(m)
      [] m.cls = "HeartbeatMessage" -> HM_msg_type(m)
      [] m.cls = "DisconnectMessage" -> DCM_msg_type(m)
      [] m.cls = "UpdateMessage" -> UM_msg_type(m)

FHM_topic(m) == "/mc/" \o m.lc_id \o "/new_connection/request"

\* A mutant: the heartbeat topic loses its trailing slash.
HM_topic_noslash(m) == "/lc/" \o m.lc_id \o "/heartbeat"

HM_topic(m) == "/lc/" \o m.lc_id \o "/heartbeat/"
DCM_topic(m) == "/lc/" \o m.lc_id \o "/disconnect/"

\* A mutant: the template is the one of dcm.py, left as it was copied.
UM_topic_copied(m) == "/lc/" \o m.lc_id \o "/disconnect/"

UM_topic(m) == "/lc/" \o m.lc_id \o "/update/"

\* m.topic: the property of m's class
topic(m) ==
    CASE m.cls = "FirstHandshakeMessage" -> FHM_topic(m)
      [] m.cls = "HeartbeatMessage" -> HM_topic(m)
      [] m.cls = "DisconnectMessage" -> DCM_topic(m)
      [] m.cls = "UpdateMessage" -> UM_topic(m)

\* A dict display builds a new dict object: a value of the caller's own.
Dict(items) == [type |-> "dict", items |-> items]
\* A reference to a list object of the heap.
ListRef(id) == [type |-> "list", ref |-> id]

\* A mutant: "if self.train_id:" in place of "if self.train_id is not None:".
FHM_payload_truthy(m) ==
    LET data == << <<"id", m.lc_id>>, <<"name", m.name>>, <<"ip", m.ip>> >>
        data1 == IF m.train_id # None /\ m.train_id[1] # 0
                 THEN Append(data, <<"train_id", m.train_id[1]>>) ELSE data
        data2 == IF Truthy(Some(m.sensors))
                 THEN Append(data1, <<"sensors", ListRef(m.sensors)>>) ELSE data1
    IN Dict(data2)

FHM_payload(m) ==
    LET data == << <<"id", m.lc_id>>, <<"name", m.name>>, <<"ip", m.ip>> >>
        data1 == IF m.train_id # None
                 THEN Append(data, <<"train_id", m.train_id[1]>>) ELSE data
        data2 == IF Truthy(Some(m.sensors))
                 THEN Append(data1, <<"sensors", ListRef(m.sensors)>>) ELSE data1
    IN Dict(data2)

HM_payload(m) == Dict(<< <<"heartbeat", 1>>, <<"heartrate", m.heartrate>> >>)

DCM_payload(m) == Dict(<< <<"disconnect", 1>> >>)

UM_payload(m) == ListRef(m.updates)

payload(m) ==
    CASE m.cls = "FirstHandshakeMessage" -> FHM_payload(m)
      [] m.cls = "HeartbeatMessage" -> HM_payload(m)
      [] m.cls = "DisconnectMessage" -> DCM_payload(m)
      [] m.cls = "UpdateMessage" -> UM_payload(m)

\* FirstHandshakeMessage(lc_id, name, ip, train_id=None, sensors=None)
FirstHandshakeMessage(args) ==
    IF Unbound(args, {"lc_id", "name", "ip"}) # {}
    THEN /\ last' = Call("FirstHandshakeMessage", args, Raised("TypeError"))
         /\ UNCHANGED <<imported, written, remote, clock, lists, msg, ack>>
    ELSE LET train_id == IF "train_id" \in DOMAIN args THEN Some(args.train_id) ELSE None
             sensors == IF "sensors" \in DOMAIN args THEN Some(args.sensors) ELSE None
             own == Truthy(sensors)
             ref == IF own THEN sensors[1] ELSE Len(lists) + 1
             self == RampMessage_init("FirstHandshakeMessage", args.lc_id)
                       @@ [name |-> args.name, ip |-> args.ip,
                           train_id |-> train_id, sensors |-> ref]
         IN /\ msg = None
            /\ own \/ Len(lists) < MaxLists
            /\ clock' \in Times
            /\ lists' = IF own THEN lists ELSE Append(lists, <<>>)
            /\ msg' = Some(self)
            /\ last' = Call("FirstHandshakeMessage", args, Returned("self"))
            /\ UNCHANGED <<imported, written, remote, ack>>

\* HeartbeatMessage(lc_id, heartrate)
HeartbeatMessage(args) ==
    IF Unbound(args, {"lc_id", "heartrate"}) # {}
    THEN /\ last' = Call("HeartbeatMessage", args, Raised("TypeError"))
         /\ UNCHANGED <<imported, written, remote, clock, lists, msg, ack>>
    ELSE LET self == RampMessage_init("HeartbeatMessage", args.lc_id)
                       @@ [heartrate |-> args.heartrate]
         IN /\ msg = None
            /\ clock' \in Times
            /\ msg' = Some(self)
            /\ last' = Call("HeartbeatMessage", args, Returned("self"))
            /\ UNCHANGED <<imported, written, remote, lists, ack>>

\* DisconnectMessage(lc_id): the inherited RampMessage.__init__
DisconnectMessage(args) ==
    IF Unbound(args, {"lc_id"}) # {}
    THEN /\ last' = Call("DisconnectMessage", args, Raised("TypeError"))
         /\ UNCHANGED <<imported, written, remote, clock, lists, msg, ack>>
    ELSE LET self == RampMessage_init("DisconnectMessage", args.lc_id)
         IN /\ msg = None
            /\ clock' \in Times
            /\ msg' = Some(self)
            /\ last' = Call("DisconnectMessage", args, Returned("self"))
            /\ UNCHANGED <<imported, written, remote, lists, ack>>

\* UpdateMessage(lc_id, updates)
UpdateMessage(args) ==
    IF Unbound(args, {"lc_id", "updates"}) # {}
    THEN /\ last' = Call("UpdateMessage", args, Raised("TypeError"))
         /\ UNCHANGED <<imported, written, remote, clock, lists, msg, ack>>
    ELSE LET self == RampMessage_init("UpdateMessage", args.lc_id)
                       @@ [updates |-> args.updates]
         IN /\ msg = None
            /\ clock' \in Times
            /\ msg' = Some(self)
            /\ last' = Call("UpdateMessage", args, Returned("self"))
            /\ UNCHANGED <<imported, written, remote, lists, ack>>

\* Calls that pass every required argument ...
NewFHM ==
    \E args \in FHMArgs :
        Unbound(args, {"lc_id", "name", "ip"}) = {} /\ FirstHandshakeMessage(args)
NewHM ==
    \E args \in HMArgs :
        Unbound(args, {"lc_id", "heartrate"}) = {} /\ HeartbeatMessage(args)
NewDCM ==
    \E args \in DCMArgs : Unbound(args, {"lc_id"}) = {} /\ DisconnectMessage(args)
NewUM ==
    \E args \in UMArgs :
        Unbound(args, {"lc_id", "updates"}) = {} /\ UpdateMessage(args)

\* Calls that pass an lc_id of any content.
RouteFHM ==
    \E id \in AnyLcIds, name \in Names, ip \in Ips :
        FirstHandshakeMessage([lc_id |-> id, name |-> name, ip |-> ip])
RouteHM ==
    \E id \in AnyLcIds, heartrate \in Heartrates :
        HeartbeatMessage([lc_id |-> id, heartrate |-> heartrate])
RouteDCM == \E id \in AnyLcIds : DisconnectMessage([lc_id |-> id])
RouteUM ==
    \E id \in AnyLcIds, updates \in ListIds :
        UpdateMessage([lc_id |-> id, updates |-> updates])

\* ... and calls with any arguments at all.
CallFHM == \E args \in FHMArgs : FirstHandshakeMessage(args)
CallHM == \E args \in HMArgs : HeartbeatMessage(args)
CallDCM == \E args \in DCMArgs : DisconnectMessage(args)
CallUM == \E args \in UMArgs : UpdateMessage(args)

\* The caller builds a list (of sensor descriptors, of update instructions).
NewList ==
    \E n \in 0..MaxLen : \E c \in [1..n -> Items] :
        /\ Len(lists) < MaxLists
        /\ lists' = Append(lists, c)
        /\ last' = Call("list", c, Returned(ListRef(Len(lists) + 1)))
        /\ UNCHANGED <<imported, written, remote, clock, msg, ack>>

\* m.msg_type
ReadMsgType ==
    /\ msg # None
    /\ last' = Call("msg_type", None, Returned(msg_type(msg[1])))
    /\ UNCHANGED <<imported, written, remote, clock, lists, msg, ack>>

\* m.topic
ReadTopic ==
    /\ msg # None
    /\ last' = Call("topic", None, Returned(topic(msg[1])))
    /\ UNCHANGED <<imported, written, remote, clock, lists, msg, ack>>

\* p = m.payload()
MsgPayload ==
    /\ msg # None
    /\ last' = Call("payload", None, Returned(payload(msg[1])))
    /\ UNCHANGED <<imported, written, remote, clock, lists, msg, ack>>

\* The value the caller has just got from payload(), if any.
Held ==
    IF last.op \in {"payload", "Acknowledgment.payload"}
    THEN Some(last.out.val) ELSE None

\* The list objects that value refers to: the payload itself (UM), or the
\* value under "sensors" in an FHM payload.
HeldLists ==
    IF Held = None THEN {}
    ELSE IF Held[1].type = "list" THEN {Held[1].ref}
    ELSE {Held[1].items[k][2].ref :
            k \in {j \in DOMAIN Held[1].items : Held[1].items[j][1] = "sensors"}}

\* p.append(x) / p["sensors"].append(x) on the payload just returned
PayloadAppend ==
    \E id \in HeldLists, x \in Items :
        /\ Len(lists[id]) < MaxLen
        /\ lists' = [lists EXCEPT ![id] = Append(@, x)]
        /\ last' = Call("append", id, Returned(None))
        /\ UNCHANGED <<imported, written, remote, clock, msg, ack>>

\* p.clear() / p["sensors"].clear() on the payload just returned
PayloadClear ==
    \E id \in HeldLists :
        /\ lists[id] # <<>>
        /\ lists' = [lists EXCEPT ![id] = <<>>]
        /\ last' = Call("clear", id, Returned(None))
        /\ UNCHANGED <<imported, written, remote, clock, msg, ack>>

\* p.clear() on a payload that is a dict: the dict is the caller's own
DictClear ==
    /\ Held # None
    /\ Held[1].type = "dict"
    /\ last' = Call("clear", "dict", Returned(None))
    /\ UNCHANGED <<imported, written, remote, clock, lists, msg, ack>>

\* m.lc_id = v, m.timestamp = v: RampMessage has plain instance attributes
\* (no __slots__, no __setattr__, not frozen), so the assignment takes effect.
SetMsgAttr ==
    /\ msg # None
    /\ \/ \E v \in LcIds \ {msg[1].lc_id} :
            /\ msg' = Some([msg[1] EXCEPT !.lc_id = v])
            /\ last' = Call("setattr", "lc_id", Returned(None))
       \/ \E v \in Times \ {msg[1].timestamp} :
            /\ msg' = Some([msg[1] EXCEPT !.timestamp = v])
            /\ last' = Call("setattr", "timestamp", Returned(None))
    /\ UNCHANGED <<imported, written, remote, clock, lists, ack>>

(***************************************************************************)
(* ramp_results.acknowledgment                                             *)
(***************************************************************************)
\* A mutant: the version argument is not used, self.version = VERSION.
Acknowledgment_fixed_version(args) ==
    IF Unbound(args, {"result", "msg_type", "original_ts"}) # {}
    THEN /\ last' = Call("Acknowledgment", args, Raised("TypeError"))
         /\ UNCHANGED <<imported, written, remote, clock, lists, msg, ack>>
    ELSE LET self == [result |-> args.result,
                      msg_type |-> args.msg_type,
                      original_ts |-> args.original_ts,
                      version |-> VERSION,
                      ack_ts |-> clock']
         IN /\ imported
            /\ ack = None
            /\ clock' \in Times
            /\ ack' = Some(self)
            /\ last' = Call("Acknowledgment", args, Returned("self"))
            /\ UNCHANGED <<imported, written, remote, lists, msg>>

\* Acknowledgment(result, msg_type, original_ts, version=VERSION); result is
\* a reference to a ResultCode object: here its position in the catalog.
Acknowledgment(args) ==
    IF Unbound(args, {"result", "msg_type", "original_ts"}) # {}
    THEN /\ last' = Call("Acknowledgment", args, Raised("TypeError"))
         /\ UNCHANGED <<imported, written, remote, clock, lists, msg, ack>>
    ELSE LET self == [result |-> args.result,
                      msg_type |-> args.msg_type,
                      original_ts |-> args.original_ts,
                      version |-> IF "version" \in DOMAIN args
                                  THEN args.version ELSE VERSION,
                      ack_ts |-> clock']
         IN /\ imported
            /\ ack = None
            /\ clock' \in Times
            /\ ack' = Some(self)
            /\ last' = Call("Acknowledgment", args, Returned("self"))
            /\ UNCHANGED <<imported, written, remote, lists, msg>>

\* A mutant: "original_ts" is filled from self.ack_ts.
Ack_payload_ts(a) ==
    Dict(<< <<"result", ResultCodeNow(a.result).code>>,
            <<"version", a.version>>,
            <<"msg_type", a.msg_type>>,
            <<"original_ts", a.ack_ts>>,
            <<"ack_ts", a.ack_ts>> >>)

Ack_payload(a) ==
    Dict(<< <<"result", ResultCodeNow(a.result).code>>,
            <<"version", a.version>>,
            <<"msg_type", a.msg_type>>,
            <<"original_ts", a.original_ts>>,
            <<"ack_ts", a.ack_ts>> >>)

NewAck ==
    \E args \in AckArgs :
        /\ Unbound(args, {"result", "msg_type", "original_ts"}) = {}
        /\ Acknowledgment(args)

\* p = a.payload()
AckPayload ==
    /\ ack # None
    /\ last' = Call("Acknowledgment.payload", None, Returned(Ack_payload(ack[1])))
    /\ UNCHANGED <<imported, written, remote, clock, lists, msg, ack>>

\* a.<field> = v: Acknowledgment has plain instance attributes as well.
SetAckAttr ==
    /\ ack # None
    /\ \E name \in {"result", "msg_type", "original_ts", "version", "ack_ts"} :
        \E v \in (CASE name = "result" -> AckResults
                    [] name = "msg_type" -> MsgTypes
                    [] name = "version" -> OtherVersions \cup {VERSION}
                    [] OTHER -> Times) \ {ack[1][name]} :
            /\ ack' = Some([ack[1] EXCEPT ![name] = v])
            /\ last' = Call("setattr", name, Returned(None))
    /\ UNCHANGED <<imported, written, remote, clock, lists, msg>>

\* is_compatible(remote_version)
CheckVersion ==
    /\ imported
    /\ last' = Call("is_compatible", remote, is_compatible(remote))
    /\ UNCHANGED <<imported, written, remote, clock, lists, msg, ack>>

\* A mutant: the class is a plain @dataclass, so an assignment takes effect.
ResultCode_setattr_plain(i, name, value) ==
    /\ written' = [k \in DOMAIN written \cup {<<i, name>>} |->
                      IF k = <<i, name>> THEN value ELSE written[k]]
    /\ last' = Call("ResultCode.__setattr__",
                    [obj |-> i, name |-> name, value |-> value], Returned(None))

\* rc.<name> = value on a catalog object: @dataclass(frozen=True) gives the
\* class a __setattr__ that raises FrozenInstanceError and stores nothing.
ResultCode_setattr(i, name, value) ==
    /\ written' = written
    /\ last' = Call("ResultCode.__setattr__",
                    [obj |-> i, name |-> name, value |-> value],
                    Raised("FrozenInstanceError"))

\* Values a caller tries to put into a field of a catalog object.
FieldValues ==
    [code |-> {<<"9", ".", "9", "9", ".", "9", "9">>},
     category |-> {"CUSTOM", "SUCCESS"},
     description |-> {""}]

\* rc.<field> = v, rc being one of the catalog objects
SetResultAttr ==
    /\ imported
    /\ \E i \in AckResults, name \in ResultCodeFields :
        \E value \in FieldValues[name] : ResultCode_setattr(i, name, value)
    /\ UNCHANGED <<imported, remote, clock, lists, msg, ack>>

\* Code strings a peer may send: those of the catalog and some of no entry.
UnknownCodes ==
    {<<"9", ".", "9", "9", ".", "9", "9">>, <<"1", ".", "0", "0">>, <<>>}
WireCodes == {Catalog[i].code : i \in DOMAIN Catalog} \cup UnknownCodes

\* codes.<NAME>: the way the module gives access to its objects
ReadConstant ==
    /\ imported
    /\ \E name \in DOMAIN codes_namespace :
        last' = Call("getattr", [name |-> name], codes_getattr(name))
    /\ UNCHANGED <<imported, written, remote, clock, lists, msg, ack>>

\* A caller resolving a received code string through the module: the string
\* is the only key it has, and attribute access is the only access there is.
LookupCode ==
    /\ imported
    /\ \E code \in WireCodes :
        last' = Call("getattr", [code |-> code], codes_getattr(Join(code)))
    /\ UNCHANGED <<imported, written, remote, clock, lists, msg, ack>>

(***************************************************************************)
(* Specifications                                                          *)
(***************************************************************************)
\* import ramp_results.codes (acknowledgment.py imports it; ramp_messages does
\* not): the module body runs and the catalog constants exist from then on.
Import ==
    /\ ~imported
    /\ imported' = TRUE
    /\ last' = Call("import", "ramp_results.codes", Returned(None))
    /\ UNCHANGED <<written, remote, clock, lists, msg, ack>>

\* The process starts: no module of the package is loaded, no object exists.
Started ==
    /\ imported = FALSE
    /\ written = <<>>
    /\ clock = 0
    /\ lists = <<>>
    /\ msg = None
    /\ ack = None
    /\ last = Call("start", None, Returned(None))

Init == Started /\ remote = Str(VERSION)

\* The caller has an empty list of updates at hand.
InitTopic ==
    /\ imported = FALSE
    /\ written = <<>>
    /\ remote = Str(VERSION)
    /\ clock = 0
    /\ lists = << <<>> >>
    /\ msg = None
    /\ ack = None
    /\ last = Call("list", <<>>, Returned(ListRef(1)))

\* The peer's version is any value at all.
InitVersion == Started /\ remote \in RemoteVersions

NextVersion == Import \/ CheckVersion

\* Callers that pass the required arguments.
NextMsg ==
    \/ NewList \/ NewFHM \/ NewHM \/ NewDCM \/ NewUM
    \/ ReadMsgType \/ ReadTopic \/ MsgPayload
    \/ PayloadAppend \/ PayloadClear \/ DictClear
    \/ SetMsgAttr

NextAck == Import \/ NewAck \/ AckPayload \/ SetAckAttr \/ DictClear

\* Callers that read the catalog.
NextLookup == Import \/ ReadConstant \/ LookupCode

\* Everything that happens while the catalog is there: messages and
\* acknowledgments are made and serialized, versions are checked, and callers
\* try to assign to the fields of catalog objects.
NextCatalog ==
    \/ Import \/ NewHM \/ NewDCM \/ MsgPayload
    \/ NewAck \/ AckPayload \/ CheckVersion \/ SetResultAttr

\* Callers that route a message by its topic.
NextTopic == RouteFHM \/ RouteHM \/ RouteDCM \/ RouteUM \/ ReadTopic

\* Callers that pass any arguments.
NextCall == NewList \/ CallFHM \/ CallHM \/ CallDCM \/ CallUM

SpecVersion == InitVersion /\ [][NextVersion]_vars
SpecMsg == Init /\ [][NextMsg]_vars
SpecAck == Init /\ [][NextAck]_vars
SpecCall == Init /\ [][NextCall]_vars
SpecLookup == Init /\ [][NextLookup]_vars
SpecTopic == InitTopic /\ [][NextTopic]_vars
SpecCatalog == Init /\ [][NextCatalog]_vars

(***************************************************************************)
(* Properties                                                              *)
(***************************************************************************)
Dots(t) == {k \in 1..Len(t) : t[k] = "."}
First(S) == CHOOSE k \in S : \A j \in S : k <= j
Final(S) == CHOOSE k \in S : \A j \in S : j <= k

\* What the version rule asks of a text: two dots, hence three components,
\* with "1" before the first dot and "0" between the dots.
MajorMinorMatch(t) ==
    /\ Cardinality(Dots(t)) = 2
    /\ SubSeq(t, 1, First(Dots(t)) - 1) = <<"1">>
    /\ SubSeq(t, First(Dots(t)) + 1, Final(Dots(t)) - 1) = <<"0">>

Patches == UNION {[1..n -> VerChars \ {"."}] : n \in 0..2}

\* C1: is_compatible of a text returns True exactly when the text has three
\* dot-separated components whose first two are "1" and "0"; replacing the
\* third component by any other (empty and non-numeric ones included) leaves
\* the answer as it is; "1.1.0", "2.0.0" and "1.0" give False.
C1_MajorMinorOnly ==
    (last.op = "is_compatible" /\ last.args.type = "str") =>
        LET t == last.args.text IN
        /\ last.out = Returned(MajorMinorMatch(t))
        /\ Cardinality(Dots(t)) = 2 =>
              \A p \in Patches :
                  is_compatible(Str(SubSeq(t, 1, Final(Dots(t))) \o p)) = last.out
        /\ t \in {<<"1", ".", "1", ".", "0">>, <<"2", ".", "0", ".", "0">>,
                  <<"1", ".", "0">>} => last.out.val = FALSE

C1_Witness ==
    /\ last.op = "is_compatible"
    /\ last.args = Str(<<"1", ".", "0", ".", "x">>)
    /\ last.out = Returned(TRUE)

\* C2: is_compatible never raises: whatever it is given, the call returns, and
\* it returns False when the value is not text (None, a number, a byte string)
\* or is a text that does not have three components (the empty text included).
C2_NeverRaises ==
    last.op = "is_compatible" =>
        /\ last.out.exc = "none"
        /\ last.args.type # "str" => last.out.val = FALSE
        /\ (last.args.type = "str" /\ Cardinality(Dots(last.args.text)) # 2) =>
              last.out.val = FALSE

\* C3: once the catalog exists, no two of its entries carry the same code.
C3_CodesUnique ==
    imported => \A i, j \in DOMAIN Catalog : Catalog[i].code = Catalog[j].code => i = j

\* Two entries of one family, which differ in the last digit of the code only.
C3_Witness ==
    /\ ack # None
    /\ \E i, j \in DOMAIN Catalog :
        /\ i # j
        /\ SubSeq(Catalog[i].code, 1, 6) = SubSeq(Catalog[j].code, 1, 6)
        /\ i = ack[1].result

DecimalDigits == {"0", "1", "2", "3", "4", "5", "6", "7", "8", "9"}
CategoryDigit == <<"1", "2", "3", "4", "5">>

\* C4: once the catalog exists, every code in it has the shape C.MS.SS, C in 1..5 and MS, SS two
\* decimal digits each, and C is the number of the entry's category.
C4_CodeShapeAndCategory ==
    imported => \A i \in DOMAIN Catalog :
        LET c == Catalog[i].code IN
        /\ Len(c) = 7
        /\ c[1] \in {"1", "2", "3", "4", "5"}
        /\ c[2] = "." /\ c[5] = "."
        /\ {c[3], c[4], c[6], c[7]} \subseteq DecimalDigits
        /\ Catalog[i].category \in DOMAIN ResultCategory
        /\ c[1] = CategoryDigit[ResultCategory[Catalog[i].category]]

\* An acknowledgment carries a code of each of the categories the samples cover.
C4_Witness ==
    /\ ack # None
    /\ Catalog[ack[1].result].category = "CUSTOM"
    /\ Catalog[ack[1].result].code[1] = "5"
    /\ {Catalog[i].category : i \in DOMAIN Catalog} = DOMAIN ResultCategory

Keys(items) == [k \in DOMAIN items |-> items[k][1]]

\* C5: the FHM constructor stores its arguments (an absent train_id as None,
\* an absent or empty sensors list as an empty list), and payload() holds id
\* (the lc_id), name, ip in that order, then train_id exactly when the
\* train_id is not None (0 is emitted), then sensors exactly when the list is
\* not empty.
C5_FHMPayloadShape ==
    /\ (last.op = "FirstHandshakeMessage" /\ last.out.exc = "none") =>
          LET m == msg[1]
              a == last.args IN
          /\ m.lc_id = a.lc_id /\ m.name = a.name /\ m.ip = a.ip
          /\ m.train_id = IF "train_id" \in DOMAIN a THEN Some(a.train_id) ELSE None
          /\ lists[m.sensors] = IF "sensors" \in DOMAIN a THEN lists[a.sensors] ELSE <<>>
    /\ (last.op = "payload" /\ msg[1].cls = "FirstHandshakeMessage") =>
          LET m == msg[1]
              p == last.out.val
              hasTrain == m.train_id # None
              hasSensors == lists[m.sensors] # <<>> IN
          /\ p.type = "dict"
          /\ Keys(p.items) = <<"id", "name", "ip">>
                               \o (IF hasTrain THEN <<"train_id">> ELSE <<>>)
                               \o (IF hasSensors THEN <<"sensors">> ELSE <<>>)
          /\ p.items[1][2] = m.lc_id /\ p.items[2][2] = m.name /\ p.items[3][2] = m.ip
          /\ hasTrain => p.items[4][2] = m.train_id[1]
          /\ hasSensors => p.items[Len(p.items)][2] = ListRef(m.sensors)

\* A train_id of 0 and a non-empty sensors list: both are in the payload.
C5_Witness ==
    /\ last.op = "payload"
    /\ msg[1].cls = "FirstHandshakeMessage"
    /\ msg[1].train_id = Some(0)
    /\ lists[msg[1].sensors] # <<>>
    /\ Keys(last.out.val.items) = <<"id", "name", "ip", "train_id", "sensors">>

\* C6: the Acknowledgment constructor stores its arguments, and payload() is
\* exactly result, version, msg_type, original_ts, ack_ts in that order, result
\* being the code of the ResultCode held and the others the fields as they
\* are: no category, no description.
C6_AckPayloadShape ==
    /\ (last.op = "Acknowledgment" /\ last.out.exc = "none") =>
          /\ ack[1].result = last.args.result
          /\ ack[1].msg_type = last.args.msg_type
          /\ ack[1].original_ts = last.args.original_ts
    /\ last.op = "Acknowledgment.payload" =>
          LET a == ack[1]
              p == last.out.val IN
          /\ p.type = "dict"
          /\ Keys(p.items) = <<"result", "version", "msg_type", "original_ts", "ack_ts">>
          /\ p.items[1][2] = Catalog[a.result].code
          /\ p.items[2][2] = a.version
          /\ p.items[3][2] = a.msg_type
          /\ p.items[4][2] = a.original_ts
          /\ p.items[5][2] = a.ack_ts

\* The documentation's example: the code 2.01.00, with the original time
\* differing from the time of the acknowledgment.
C6_Witness ==
    /\ last.op = "Acknowledgment.payload"
    /\ last.out.val.items[1][2] = <<"2", ".", "0", "1", ".", "0", "0">>
    /\ last.out.val.items[3][2] = "FHM"
    /\ ack[1].original_ts # ack[1].ack_ts

MsgTypeOf ==
    [FirstHandshakeMessage |-> "FHM", HeartbeatMessage |-> "HM",
     DisconnectMessage |-> "DCM", UpdateMessage |-> "UM"]
TopicHead ==
    [FirstHandshakeMessage |-> "/mc/", HeartbeatMessage |-> "/lc/",
     DisconnectMessage |-> "/lc/", UpdateMessage |-> "/lc/"]
TopicTail ==
    [FirstHandshakeMessage |-> "/new_connection/request", HeartbeatMessage |-> "/heartbeat/",
     DisconnectMessage |-> "/disconnect/", UpdateMessage |-> "/update/"]

\* C7: reading msg_type gives the variant's constant and reading topic gives
\* the variant's template around the lc_id; a read changes nothing, and a
\* read that follows a read of the same attribute gives the same value.
C7_TypeAndTopicPure ==
    [][/\ last'.op = "msg_type" =>
            /\ last'.out = Returned(MsgTypeOf[msg[1].cls])
            /\ UNCHANGED <<imported, written, remote, clock, lists, msg, ack>>
       /\ last'.op = "topic" =>
            /\ last'.out = Returned(TopicHead[msg[1].cls] \o msg[1].lc_id
                                      \o TopicTail[msg[1].cls])
            /\ UNCHANGED <<imported, written, remote, clock, lists, msg, ack>>
       /\ (last'.op = last.op /\ last.op \in {"msg_type", "topic"}) => last' = last
      ]_vars

C7_Witness ==
    /\ last.op = "topic"
    /\ msg[1].cls = "HeartbeatMessage"
    /\ msg[1].lc_id = "LC7"
    /\ last.out.val = "/lc/LC7/heartbeat/"

\* C8: once an object is made, its fields (lc_id and timestamp of a message;
\* result, msg_type, original_ts, version and ack_ts of an acknowledgment)
\* keep their values through every step, a caller's assignment included.
C8_FieldsImmutable ==
    [][/\ (msg # None /\ msg' # None) =>
            /\ msg'[1].lc_id = msg[1].lc_id
            /\ msg'[1].timestamp = msg[1].timestamp
       /\ (ack # None /\ ack' # None) => ack'[1] = ack[1]
      ]_vars

\* What the message's list field holds (sensors of an FHM, updates of a UM).
ListField(m) ==
    CASE m.cls = "FirstHandshakeMessage" -> lists[m.sensors]
      [] m.cls = "UpdateMessage" -> lists[m.updates]
      [] OTHER -> <<>>

\* C9: payload() returns a newly built value (not a list object that was there
\* before the call), and changing a value it returned changes neither the
\* message's fields nor what payload() gives.
C9_PayloadFresh ==
    [][/\ (last'.op = "payload" /\ last'.out.val.type = "list") =>
            last'.out.val.ref \notin DOMAIN lists
       /\ (msg # None /\ last'.op \in {"append", "clear"}) =>
            /\ ListField(msg[1])' = ListField(msg[1])
            /\ payload(msg[1])' = payload(msg[1])
      ]_vars

Required ==
    [FirstHandshakeMessage |-> {"lc_id", "name", "ip"},
     HeartbeatMessage |-> {"lc_id", "heartrate"},
     DisconnectMessage |-> {"lc_id"},
     UpdateMessage |-> {"lc_id", "updates"}]

\* C10: a constructor call fails, and makes no object, exactly when a
\* required field is missing: an argument left out, or an empty lc_id.
C10_MissingFieldRejected ==
    last.op \in DOMAIN Required =>
        LET missing == \/ Required[last.op] \ DOMAIN last.args # {}
                       \/ ("lc_id" \in DOMAIN last.args /\ last.args.lc_id = "")
        IN (last.out.exc # "none") <=> missing

\* C11: the catalog can be looked up by code string: looking up the code of
\* an entry returns that entry, and looking up a code string that no entry
\* carries is reported as an error, never answered with an entry.
C11_LookupByCode ==
    (last.op = "getattr" /\ "code" \in DOMAIN last.args) =>
        /\ \A i \in DOMAIN Catalog :
              Catalog[i].code = last.args.code =>
                  (last.out.exc = "none" /\ last.out.val = Catalog[i])
        /\ (\A i \in DOMAIN Catalog : Catalog[i].code # last.args.code) =>
              last.out.exc # "none"

\* C12: an Acknowledgment made without a version argument carries the active
\* schema version "1.0.0", which is_compatible accepts; made with a version
\* argument it carries exactly that version; and payload() reports the
\* version the acknowledgment carries.
C12_AckVersion ==
    /\ (last.op = "Acknowledgment" /\ last.out.exc = "none") =>
          IF "version" \in DOMAIN last.args
          THEN ack[1].version = last.args.version
          ELSE /\ ack[1].version = <<"1", ".", "0", ".", "0">>
               /\ is_compatible(Str(ack[1].version)) = Returned(TRUE)
    /\ last.op = "Acknowledgment.payload" =>
          last.out.val.items[2] = <<"version", ack[1].version>>

\* An acknowledgment of an older schema has just been made: the caller gave
\* a version that is not the active one and is not compatible with it.
C12_Witness ==
    /\ last.op = "Acknowledgment"
    /\ last.out.exc = "none"
    /\ "version" \in DOMAIN last.args
    /\ ack[1].version = <<"0", ".", "9", ".", "0">>
    /\ is_compatible(Str(ack[1].version)) = Returned(FALSE)

\* C13: the catalog is read-only once it exists: whatever messages and
\* acknowledgments are made and serialized and whatever versions are checked,
\* every catalog object has the code, category and description it was made
\* with; an assignment to a field of a catalog object is rejected; and an
\* acknowledgment holds the very object it was given, which stays as it was.
C13_CatalogReadOnly ==
    imported =>
        /\ \A i \in DOMAIN Catalog : ResultCodeNow(i) = Catalog[i]
        /\ last.op = "ResultCode.__setattr__" => last.out.exc # "none"
        /\ (last.op = "Acknowledgment" /\ last.out.exc = "none") =>
              ack[1].result = last.args.result
        /\ ack # None =>
              /\ ack[1].result \in DOMAIN Catalog
              /\ ResultCodeNow(ack[1].result) = Catalog[ack[1].result]

\* An acknowledgment holds MALFORMED_MESSAGE, a message has been made as
\* well, and a caller has just tried to give that entry another code.
C13_Witness ==
    /\ ack # None
    /\ msg # None
    /\ Catalog[ack[1].result] = MALFORMED_MESSAGE
    /\ last.op = "ResultCode.__setattr__"
    /\ last.args.obj = ack[1].result
    /\ last.args.name = "code"

\* The messages the constructors can make, as far as topic reads them.
Routable ==
    {[cls |-> c, lc_id |-> id] : c \in DOMAIN MsgTypeOf, id \in AnyLcIds}

\* C14: a topic names one variant and one lc_id: a message whose topic equals
\* the topic read from another is of the same variant and has the same
\* lc_id, whatever the lc_id strings contain ("/" and pieces of the topic
\* templates included).
C14_TopicsUnambiguous ==
    (last.op = "topic" /\ msg # None) =>
        \A other \in Routable :
            topic(other) = last.out.val =>
                (other.cls = msg[1].cls /\ other.lc_id = msg[1].lc_id)

\* The topic of an update message has been read whose lc_id ends the way a
\* heartbeat topic does.
C14_Witness ==
    /\ last.op = "topic"
    /\ msg # None
    /\ msg[1].cls = "UpdateMessage"
    /\ msg[1].lc_id = "LC7/heartbeat/"
    /\ last.out.val = "/lc/LC7/heartbeat//update/"

====
